---- MODULE Spec2Model ----
(***************************************************************************)
(* Model of the leaderboard service of mwfc-api (src/src/index.ts): the    *)
(* getLeaderboard pipeline, from the database rows it fetches to the       *)
(* response it returns, one action per step of the function.               *)
(*                                                                         *)
(* Nullable columns are sequences of length 0 (null) or 1 (a value).       *)
(* Insertion-ordered JS Maps are sequences in insertion order.             *)
(***************************************************************************)
EXTENDS Integers, Sequences, FiniteSets, TLC

(***************************************************************************)
(* Bounds of the input enumeration.                                        *)
(***************************************************************************)
NumAthletes == 3
MaxEvents == 2
MaxRows == 2
RosterSize == 7

(***************************************************************************)
(* Program constants.                                                      *)
(***************************************************************************)
TRADITIONAL_FIRST_PLACE == 100
TRADITIONAL_STEP == 5
TOP_PER_DIVISION == 6
DefaultMultiplier == 100

NULL == <<>>
Some(x) == <<x>>

Max2(a, b) == IF a >= b THEN a ELSE b
Min2(a, b) == IF a <= b THEN a ELSE b

RECURSIVE SumSeq(_)
SumSeq(s) == IF s = <<>> THEN 0 ELSE Head(s) + SumSeq(Tail(s))

RECURSIVE Flatten(_)
Flatten(ss) == IF ss = <<>> THEN <<>> ELSE Head(ss) \o Flatten(Tail(ss))

Range(s) == {s[i] : i \in DOMAIN s}

(***************************************************************************)
(* Array.prototype.sort as the runtime (V8) computes it for fewer than 64  *)
(* elements: the initial run is found (and reversed when it is strictly    *)
(* descending), then every later element is put in place by binary         *)
(* insertion.  It is stable, and it fixes the order the code gets when its *)
(* comparator is not consistent.  a is a sequence of indices into the      *)
(* array, lt[i][j] is "comparator(array[i], array[j]) < 0".                *)
(***************************************************************************)
RECURSIVE RunEnd(_, _, _, _)
RunEnd(a, k, descending, lt) ==
  IF k < Len(a) /\ (lt[a[k + 1]][a[k]] <=> descending)
  THEN RunEnd(a, k + 1, descending, lt)
  ELSE k

Reverse(s) == [k \in 1..Len(s) |-> s[Len(s) + 1 - k]]

RECURSIVE InsertionPoint(_, _, _, _, _)
InsertionPoint(a, pivot, left, right, lt) ==
  IF left >= right THEN left
  ELSE LET mid == left + ((right - left) \div 2)
       IN IF lt[pivot][a[mid]]
          THEN InsertionPoint(a, pivot, left, mid, lt)
          ELSE InsertionPoint(a, pivot, mid + 1, right, lt)

RECURSIVE BinaryInsertionSort(_, _, _)
BinaryInsertionSort(a, start, lt) ==
  IF start > Len(a) THEN a
  ELSE LET pivot == a[start]
           left == InsertionPoint(a, pivot, 1, start, lt)
       IN BinaryInsertionSort(
            SubSeq(a, 1, left - 1) \o <<pivot>> \o SubSeq(a, left, start - 1)
              \o SubSeq(a, start + 1, Len(a)),
            start + 1, lt)

SortedIndices(n, lt) ==
  LET a == [k \in 1..n |-> k]
  IN IF n < 2 THEN a
     ELSE LET descending == lt[a[2]][a[1]]
              run == RunEnd(a, 2, descending, lt)
              made == IF descending
                      THEN Reverse(SubSeq(a, 1, run)) \o SubSeq(a, run + 1, n)
                      ELSE a
          IN BinaryInsertionSort(made, run + 1, lt)

ArraySort(s, lt) ==
  LET order == SortedIndices(Len(s), lt)
  IN [k \in 1..Len(s) |-> s[order[k]]]

(***************************************************************************)
(* Scoring: traditional points.                                            *)
(***************************************************************************)
\* The step is taken once too often: first place gets 95.
calculateTraditionalPointsOffByOne(place) ==
  IF place <= 0 THEN TRADITIONAL_FIRST_PLACE
  ELSE Max2(0, TRADITIONAL_FIRST_PLACE - place * TRADITIONAL_STEP)

calculateTraditionalPoints(place) ==
  IF place <= 0 THEN TRADITIONAL_FIRST_PLACE
  ELSE Max2(0, TRADITIONAL_FIRST_PLACE - (place - 1) * TRADITIONAL_STEP)

\* event.pointsMultiplier ?? 100
EventMultiplier(event) ==
  IF event.pointsMultiplier = NULL THEN DefaultMultiplier ELSE event.pointsMultiplier[1]

\* The pairs <<ladder points, multiplier>>, among the multipliers of the model,
\* whose exact product over 100 ends in .5 while the IEEE-754 double
\* ladder * (multiplier / 100) falls just below it (90 * 0.35 is 31.499999999999996).
ProductBelowTie == {<<90, 35>>}

\* Math.round(calculateTraditionalPoints(rank) * multiplier), multiplier =
\* pm / 100 in double arithmetic, for pm >= 0: Math.round rounds halves up.
AwardPoints(rank, pm) ==
  LET ladder == calculateTraditionalPoints(rank)
      hundredths == ladder * pm
  IN IF hundredths % 100 = 50 /\ <<ladder, pm>> \in ProductBelowTie
     THEN hundredths \div 100
     ELSE (hundredths + 50) \div 100

(***************************************************************************)
(* Rank assignment.                                                        *)
(***************************************************************************)
\* JS truthiness of a nullable string: neither null nor "".
Truthy(sortKey) == sortKey /= NULL /\ sortKey[1] /= ""

\* String.prototype.localeCompare on the sort keys of the model.
StrOrd(str) == CASE str = "" -> 0 [] str = "a" -> 1 [] str = "b" -> 2
LocaleCompare(x, y) == StrOrd(x) - StrOrd(y)

\* a.value ?? 0
ValueOrZero(entry) == IF entry.value = NULL THEN 0 ELSE entry.value[1]

\* The comparator of active.sort.
ActiveCompare(a, b) ==
  IF Truthy(a.sortKey) /\ Truthy(b.sortKey)
  THEN LocaleCompare(a.sortKey[1], b.sortKey[1])
  ELSE ValueOrZero(a) - ValueOrZero(b)

\* active.sort((a, b) => ...)
SortActive(active) ==
  ArraySort(active, [i \in DOMAIN active |-> [j \in DOMAIN active |->
                       ActiveCompare(active[i], active[j]) < 0]])

RECURSIVE assignRanksFrom(_, _, _, _, _)
assignRanksFrom(sorted, i, currentRank, prevSortKey, prevValue) ==
  IF i > Len(sorted) THEN <<>>
  ELSE LET entry == sorted[i]
           rank == IF Truthy(entry.sortKey) /\ prevSortKey /= NULL
                   THEN (IF entry.sortKey /= prevSortKey THEN i ELSE currentRank)
                   ELSE IF prevValue /= NULL /\ entry.value /= prevValue
                        THEN i
                        ELSE currentRank
       IN <<[entry |-> entry, rank |-> rank]>>
            \o assignRanksFrom(sorted, i + 1, rank, entry.sortKey, entry.value)

assignRanks(sorted) == assignRanksFrom(sorted, 1, 1, NULL, NULL)

(***************************************************************************)
(* Affiliate name from the registration metadata.  The metadata text is    *)
(* modelled by what JSON.parse makes of it: kind "null" (no metadata),     *)
(* "invalid" (not JSON), "affiliateName" (the key is set), "affiliates"    *)
(* (a map whose first value is the name), "other" (JSON with neither).     *)
(***************************************************************************)
parseAffiliateName(metadata) ==
  CASE metadata.kind = "null" -> "Unaffiliated"
    [] metadata.kind = "invalid" -> "Unaffiliated"
    [] metadata.kind = "affiliateName" -> metadata.name
    [] metadata.kind = "affiliates" -> metadata.name
    [] OTHER -> "Unaffiliated"

(***************************************************************************)
(* State.                                                                  *)
(***************************************************************************)
VARIABLES
  dbComp,          \* the competitions row exists
  dbTrack,         \* a programming_tracks row of the competition exists
  dbEvents,        \* track_workouts rows of the track (joined with workouts)
  dbRegs,          \* competition_registrations rows (joined with users, scaling_levels)
  dbScores,        \* scores rows
  pc,              \* position in getLeaderboard
  events,          \* step 3: the published events, by trackOrder
  registrations,   \* step 4: the non-REMOVED registrations
  allScores,       \* step 5: the scores of these events and users
  athleteMap,      \* step 6: the athletes, in insertion order
  eventIdx,        \* step 7: index of the event of the current iteration
  divisionScores,  \* step 7: the divisions of the event still to rank
  ranked,          \* step 7: assignRanks' result of the last division ranked
  dnfScores,       \* step 7: the dnf entries of the last division ranked
  divisions,       \* step 8: the division leaderboards
  gyms,            \* step 9: the gym leaderboards
  outcome,         \* "pending", "ok" (a response was returned) or "error" (thrown)
  call,            \* the number of the call of getLeaderboard that is running
  firstResponse    \* what the first call returned or threw, once a second one began

vars == <<dbComp, dbTrack, dbEvents, dbRegs, dbScores, pc, events, registrations,
          allScores, athleteMap, eventIdx, divisionScores, ranked, dnfScores,
          divisions, gyms, outcome, call, firstResponse>>

dbVars == <<dbComp, dbTrack, dbEvents, dbRegs, dbScores>>

callVars == <<call, firstResponse>>

(***************************************************************************)
(* The database rows the runs start from.                                  *)
(***************************************************************************)
EventRow(id, order, pm, status) ==
  [id |-> id, trackOrder |-> order, pointsMultiplier |-> pm, eventStatus |-> status]

RegRow(userId, divisionId, divisionLabel, metadata, status) ==
  [userId |-> userId, divisionId |-> divisionId, divisionLabel |-> divisionLabel,
   metadata |-> metadata, name |-> userId, status |-> status]

ScoreRow(userId, eventId, kind) ==
  [userId |-> userId, competitionEventId |-> eventId, scoreValue |-> kind.scoreValue,
   status |-> kind.status, sortKey |-> kind.sortKey]

Kind(value, status, sortKey) ==
  [scoreValue |-> value, status |-> status, sortKey |-> sortKey]

Metadata(kind, name) == [kind |-> kind, name |-> name]

\* The score rows an athlete may have for one event.
ScoreKinds ==
  { Kind(Some(0), "scored", NULL),
    Kind(NULL, "scored", NULL),
    Kind(Some(5), "cap", NULL),
    Kind(Some(7), "scored", Some("a")),
    Kind(Some(0), "scored", Some("b")),
    Kind(NULL, "dnf", NULL),
    Kind(NULL, "dns", NULL) }

KindChoices == {<<>>} \cup {<<k>> : k \in ScoreKinds}

\* The multiplier column of the j-th event: null, 35, 50, 50, ...
MultiplierOf(j) == CASE j = 1 -> NULL [] j = 2 -> Some(35) [] OTHER -> Some(50)

Multipliers == {DefaultMultiplier, 35, 50}

\* track_workouts as stored: a draft event, then the published events in
\* descending trackOrder.
EventRows ==
  <<EventRow(0, 0, NULL, "draft")>>
    \o [k \in 1..MaxEvents |->
          LET j == MaxEvents + 1 - k IN EventRow(j, j, MultiplierOf(j), "published")]

RECURSIVE Repeat(_, _)
Repeat(s, k) == IF k = 0 THEN <<>> ELSE s \o Repeat(s, k - 1)

\* scores as stored, for athletes 1..n whose rows for the first event are
\* rowsOf[u]: in event j athlete u has the rows athlete u + j - 1 (cyclically)
\* has in the first event.  Two rows come first that the query filters out
\* (a draft event's, a REMOVED registration's).
ScoreRows(n, rowsOf) ==
  <<ScoreRow(1, 0, Kind(Some(0), "scored", NULL)),
    ScoreRow(0, 1, Kind(Some(0), "scored", NULL))>>
    \o Flatten([j \in 1..MaxEvents |->
         Flatten([u \in 1..n |->
           LET src == rowsOf[((u + j - 2) % n) + 1]
           IN [i \in 1..Len(src) |-> ScoreRow(u, j, src[i])]])])

RemovedReg == RegRow(0, Some("d1"), Some("RX"), Metadata("affiliateName", "g1"), "REMOVED")

\* A few athletes with every mix of score rows; the first athlete's row may be
\* stored more than once; the last athlete may be in another division.
RankingInputs ==
  { [regs |-> <<RemovedReg>> \o
        [u \in 1..NumAthletes |->
          RegRow(u,
                 IF u = NumAthletes THEN lastDiv ELSE Some("d1"),
                 IF u = NumAthletes /\ lastDiv = NULL THEN NULL ELSE Some("RX"),
                 IF u % 2 = 1 THEN Metadata("affiliateName", "g1") ELSE Metadata("null", ""),
                 "ACTIVE")],
     scores |-> ScoreRows(NumAthletes,
        [u \in 1..NumAthletes |-> IF u = 1 THEN Repeat(kinds[1], copies) ELSE kinds[u]])]
    : kinds \in [1..NumAthletes -> KindChoices],
      lastDiv \in {Some("d1"), NULL},
      copies \in 1..MaxRows }

\* One gym's roster of more than TOP_PER_DIVISION athletes: the first p have no
\* division, the others division d2, whose scaling_levels row is missing
\* (label null) or labelled RX; one athlete may have no score.
RosterInputs ==
  { [regs |-> [u \in 1..RosterSize |->
          RegRow(u,
                 IF u <= p THEN NULL ELSE Some("d2"),
                 IF u <= p THEN NULL ELSE label,
                 Metadata("affiliates", "g1"),
                 "ACTIVE")],
     scores |-> ScoreRows(RosterSize,
        [u \in 1..RosterSize |->
          IF u = skip THEN <<>> ELSE <<Kind(Some((u + shift) % 3), "scored", NULL)>>])]
    : p \in 0..RosterSize,
      label \in {NULL, Some("RX")},
      shift \in 0..2,
      skip \in 0..RosterSize }

InitPipeline ==
  /\ pc = "start"
  /\ events = <<>>
  /\ registrations = <<>>
  /\ allScores = <<>>
  /\ athleteMap = <<>>
  /\ eventIdx = 0
  /\ divisionScores = <<>>
  /\ ranked = <<>>
  /\ dnfScores = <<>>
  /\ divisions = <<>>
  /\ gyms = <<>>
  /\ outcome = "pending"
  /\ call = 1
  /\ firstResponse = NULL

InitFull ==
  /\ dbComp = TRUE
  /\ dbTrack = TRUE
  /\ dbEvents = EventRows
  /\ \E input \in RankingInputs \cup RosterInputs :
       /\ dbRegs = input.regs
       /\ dbScores = input.scores

\* The competition, its track, its published events or its registrations may
\* be missing.
InitSparse ==
  /\ dbComp \in BOOLEAN
  /\ dbTrack \in BOOLEAN
  /\ dbEvents \in {<<>>, <<EventRow(0, 0, NULL, "draft")>>, <<EventRow(1, 1, NULL, "published")>>}
  /\ dbRegs \in {<<>>, <<RemovedReg>>,
                 <<RegRow(1, NULL, NULL, Metadata("invalid", ""), "ACTIVE")>>}
  /\ dbScores \in {<<>>, <<ScoreRow(1, 1, Kind(Some(0), "scored", NULL))>>}

Init == InitPipeline /\ (InitFull \/ InitSparse)

(***************************************************************************)
(* Steps 1-5: the queries.                                                 *)
(***************************************************************************)
EmptyResponse ==
  /\ divisions' = <<>>
  /\ gyms' = <<>>
  /\ outcome' = "ok"
  /\ pc' = "done"

\* 1. Fetch competition: "Competition not found" is thrown when it is missing.
FetchCompetition ==
  /\ pc = "start"
  /\ IF dbComp
     THEN /\ pc' = "track"
          /\ outcome' = outcome
     ELSE /\ pc' = "done"
          /\ outcome' = "error"
  /\ UNCHANGED <<dbVars, callVars, events, registrations, allScores, athleteMap, eventIdx,
                 divisionScores, ranked, dnfScores, divisions, gyms>>

\* A missing track is thrown as an error.
NoTrackThrows ==
  /\ pc' = "done"
  /\ outcome' = "error"
  /\ UNCHANGED <<dbVars, callVars, events, registrations, allScores, athleteMap, eventIdx,
                 divisionScores, ranked, dnfScores, divisions, gyms>>

\* 2. Fetch programming track.
NoTrack ==
  /\ EmptyResponse
  /\ UNCHANGED <<dbVars, callVars, events, registrations, allScores, athleteMap, eventIdx,
                 divisionScores, ranked, dnfScores>>

FetchTrack ==
  /\ pc = "track"
  /\ IF dbTrack
     THEN /\ pc' = "events"
          /\ UNCHANGED <<dbVars, callVars, events, registrations, allScores, athleteMap, eventIdx,
                         divisionScores, ranked, dnfScores, divisions, gyms, outcome>>
     ELSE NoTrack

\* 3. The published track workouts, ordered by trackOrder.
PublishedEvents(rows) ==
  LET IsPublished(e) == e.eventStatus = "published"
      found == SelectSeq(rows, IsPublished)
      pos(i) == Cardinality({j \in DOMAIN found :
                               \/ found[j].trackOrder < found[i].trackOrder
                               \/ (found[j].trackOrder = found[i].trackOrder /\ j < i)}) + 1
  IN [k \in DOMAIN found |-> found[CHOOSE i \in DOMAIN found : pos(i) = k]]

FetchEvents ==
  /\ pc = "events"
  /\ events' = PublishedEvents(dbEvents)
  /\ IF Len(events') = 0
     THEN EmptyResponse
     ELSE /\ pc' = "registrations"
          /\ UNCHANGED <<divisions, gyms, outcome>>
  /\ UNCHANGED <<dbVars, callVars, registrations, allScores, athleteMap, eventIdx,
                 divisionScores, ranked, dnfScores>>

\* 4. The registrations whose status is not REMOVED.
EligibleRegistrations(rows) ==
  LET NotRemoved(r) == r.status /= "REMOVED"
  IN SelectSeq(rows, NotRemoved)

FetchRegistrations ==
  /\ pc = "registrations"
  /\ registrations' = EligibleRegistrations(dbRegs)
  /\ IF Len(registrations') = 0
     THEN EmptyResponse
     ELSE /\ pc' = "scores"
          /\ UNCHANGED <<divisions, gyms, outcome>>
  /\ UNCHANGED <<dbVars, callVars, events, allScores, athleteMap, eventIdx,
                 divisionScores, ranked, dnfScores>>

\* 5. The scores of these events and these users.
RelevantScores(rows, evs, regs) ==
  LET eventIds == {evs[i].id : i \in DOMAIN evs}
      userIds == {regs[i].userId : i \in DOMAIN regs}
      Wanted(row) == row.competitionEventId \in eventIds /\ row.userId \in userIds
  IN SelectSeq(rows, Wanted)

FetchScores ==
  /\ pc = "scores"
  /\ allScores' = RelevantScores(dbScores, events, registrations)
  /\ pc' = "athletes"
  /\ UNCHANGED <<dbVars, callVars, events, registrations, athleteMap, eventIdx,
                 divisionScores, ranked, dnfScores, divisions, gyms, outcome>>

(***************************************************************************)
(* Step 6: the per-athlete records.                                        *)
(***************************************************************************)
\* reg.divisionId || "open"
DivisionIdOf(reg) == IF Truthy(reg.divisionId) THEN reg.divisionId[1] ELSE "open"

\* reg.divisionLabel || "Open"
DivisionLabelOf(reg) == IF Truthy(reg.divisionLabel) THEN reg.divisionLabel[1] ELSE "Open"

NewAthlete(reg) ==
  [userId |-> reg.userId,
   name |-> reg.name,
   affiliateName |-> parseAffiliateName(reg.metadata),
   divisionId |-> DivisionIdOf(reg),
   divisionLabel |-> DivisionLabelOf(reg),
   events |-> <<>>,
   totalPoints |-> 0]

\* Map.prototype.set on the athletes, keyed by userId: a key already present
\* keeps its place.
MapSet(map, athlete) ==
  IF \E i \in DOMAIN map : map[i].userId = athlete.userId
  THEN [i \in DOMAIN map |-> IF map[i].userId = athlete.userId THEN athlete ELSE map[i]]
  ELSE Append(map, athlete)

RECURSIVE AthletesOf(_, _)
AthletesOf(regs, map) ==
  IF regs = <<>> THEN map
  ELSE AthletesOf(Tail(regs), MapSet(map, NewAthlete(Head(regs))))

HasAthlete(map, userId) == \E i \in DOMAIN map : map[i].userId = userId
GetAthlete(map, userId) == map[CHOOSE i \in DOMAIN map : map[i].userId = userId]

\* The athletes map outlives the call: a later call finds the records of the
\* call before, results and totals included, and keeps them.
BuildAthletesKeepingMap ==
  /\ pc = "athletes"
  /\ athleteMap' = IF athleteMap = <<>> THEN AthletesOf(registrations, <<>>) ELSE athleteMap
  /\ eventIdx' = 1
  /\ pc' = "event"
  /\ UNCHANGED <<dbVars, callVars, events, registrations, allScores,
                 divisionScores, ranked, dnfScores, divisions, gyms, outcome>>

BuildAthletes ==
  /\ pc = "athletes"
  /\ athleteMap' = AthletesOf(registrations, <<>>)
  /\ eventIdx' = 1
  /\ pc' = "event"
  /\ UNCHANGED <<dbVars, callVars, events, registrations, allScores,
                 divisionScores, ranked, dnfScores, divisions, gyms, outcome>>

(***************************************************************************)
(* Step 7: per-event rankings and points, within each division.            *)
(***************************************************************************)
ScoreEntry(score) ==
  [userId |-> score.userId, value |-> score.scoreValue,
   status |-> score.status, sortKey |-> score.sortKey]

\* divisionScores: the event's score entries of known athletes, grouped by the
\* athlete's divisionId, the groups in order of first appearance.
RECURSIVE GroupByDivision(_, _, _, _)
GroupByDivision(scores, event, map, groups) ==
  IF scores = <<>> THEN groups
  ELSE LET score == Head(scores)
           rest == Tail(scores)
       IN IF score.competitionEventId /= event.id \/ ~HasAthlete(map, score.userId)
          THEN GroupByDivision(rest, event, map, groups)
          ELSE LET divId == GetAthlete(map, score.userId).divisionId
                   entry == ScoreEntry(score)
               IN IF \E g \in DOMAIN groups : groups[g].divId = divId
                  THEN GroupByDivision(rest, event, map,
                         [g \in DOMAIN groups |->
                            IF groups[g].divId = divId
                            THEN [groups[g] EXCEPT !.scores = Append(@, entry)]
                            ELSE groups[g]])
                  ELSE GroupByDivision(rest, event, map,
                         Append(groups, [divId |-> divId, scores |-> <<entry>>]))

GroupScores ==
  /\ pc = "event"
  /\ eventIdx <= Len(events)
  /\ divisionScores' = GroupByDivision(allScores, events[eventIdx], athleteMap, <<>>)
  /\ ranked' = <<>>
  /\ dnfScores' = <<>>
  /\ pc' = "division"
  /\ UNCHANGED <<dbVars, callVars, events, registrations, allScores, athleteMap, eventIdx,
                 divisions, gyms, outcome>>

\* Every entry that is not a dnf is ranked, a dns among them.
IsActiveOrDns(s) == s.status /= "dnf"

IsActive(s) == s.status = "scored" \/ s.status = "cap"
IsDnf(s) == s.status = "dnf"

\* The number of active entries, not the rank of the last one.
LastActivePosition(rk) == Len(rk)

\* ranked.length > 0 ? ranked[ranked.length - 1].rank : 0
LastActiveRank(rk) == IF Len(rk) > 0 THEN rk[Len(rk)].rank ELSE 0

\* The rank of the division's dnf entries.
DnfRank(rk) == LastActiveRank(rk) + 1

EventResult(event, points, rank) ==
  [eventId |-> event.id, points |-> points, rank |-> rank]

\* The total is overwritten by the last result's points, not added to.
PushResultOverwritingTotal(map, userId, result) ==
  [i \in DOMAIN map |->
     IF map[i].userId = userId
     THEN [map[i] EXCEPT !.events = Append(@, result),
                         !.totalPoints = result.points]
     ELSE map[i]]

\* athlete.events.push(result); athlete.totalPoints += result.points
PushResult(map, userId, result) ==
  [i \in DOMAIN map |->
     IF map[i].userId = userId
     THEN [map[i] EXCEPT !.events = Append(@, result),
                         !.totalPoints = @ + result.points]
     ELSE map[i]]

\* Award points to active athletes.
RECURSIVE AwardActive(_, _, _)
AwardActive(map, rk, event) ==
  IF rk = <<>> THEN map
  ELSE LET r == Head(rk)
           points == AwardPoints(r.rank, EventMultiplier(event))
       IN AwardActive(PushResult(map, r.entry.userId, EventResult(event, points, r.rank)),
                      Tail(rk), event)

\* DNF gets last-place points.
RECURSIVE AwardDnf(_, _, _, _)
AwardDnf(map, dnf, rank, event) ==
  IF dnf = <<>> THEN map
  ELSE LET points == AwardPoints(rank, EventMultiplier(event))
       IN AwardDnf(PushResult(map, Head(dnf).userId, EventResult(event, points, rank)),
                   Tail(dnf), rank, event)

\* One iteration of the loop over divisionScores.
RankDivision ==
  /\ pc = "division"
  /\ divisionScores /= <<>>
  /\ LET divScores == Head(divisionScores).scores
         active == SelectSeq(divScores, IsActive)
         event == events[eventIdx]
     IN /\ ranked' = assignRanks(SortActive(active))
        /\ dnfScores' = SelectSeq(divScores, IsDnf)
        /\ athleteMap' = AwardDnf(AwardActive(athleteMap, ranked', event),
                                  dnfScores', DnfRank(ranked'), event)
  /\ divisionScores' = Tail(divisionScores)
  /\ UNCHANGED <<dbVars, callVars, pc, events, registrations, allScores, eventIdx,
                 divisions, gyms, outcome>>

HasEvent(athlete, eventId) ==
  \E i \in DOMAIN athlete.events : athlete.events[i].eventId = eventId

\* Athletes with no result for the event get a zero result.
WithPlaceholders(map, event) ==
  [i \in DOMAIN map |->
     IF HasEvent(map[i], event.id) THEN map[i]
     ELSE [map[i] EXCEPT !.events = Append(@, EventResult(event, 0, 0))]]

Placeholders ==
  /\ pc = "division"
  /\ divisionScores = <<>>
  /\ athleteMap' = WithPlaceholders(athleteMap, events[eventIdx])
  /\ eventIdx' = eventIdx + 1
  /\ pc' = "event"
  /\ UNCHANGED <<dbVars, callVars, events, registrations, allScores, divisionScores,
                 ranked, dnfScores, divisions, gyms, outcome>>

(***************************************************************************)
(* Step 8: division leaderboards.                                          *)
(***************************************************************************)
LeaderboardAthlete(athlete) ==
  [rank |-> 0, userId |-> athlete.userId, name |-> athlete.name,
   affiliateName |-> athlete.affiliateName, events |-> athlete.events,
   totalPoints |-> athlete.totalPoints]

\* divisionGroups: the athletes grouped by divisionId, the groups in order of
\* first appearance, named by their first athlete's label.
RECURSIVE GroupDivisions(_, _)
GroupDivisions(athletes, groups) ==
  IF athletes = <<>> THEN groups
  ELSE LET a == Head(athletes)
       IN IF \E g \in DOMAIN groups : groups[g].id = a.divisionId
          THEN GroupDivisions(Tail(athletes),
                 [g \in DOMAIN groups |->
                    IF groups[g].id = a.divisionId
                    THEN [groups[g] EXCEPT !.athletes = Append(@, LeaderboardAthlete(a))]
                    ELSE groups[g]])
          ELSE GroupDivisions(Tail(athletes),
                 Append(groups, [id |-> a.divisionId, name |-> a.divisionLabel,
                                 athletes |-> <<LeaderboardAthlete(a)>>]))

\* div.athletes.sort((a, b) => b.totalPoints - a.totalPoints)
SortByTotal(athletes) ==
  ArraySort(athletes, [i \in DOMAIN athletes |-> [j \in DOMAIN athletes |->
                         athletes[i].totalPoints > athletes[j].totalPoints]])

\* Dense ranks: a lower total takes the next rank, not its position.
NextDivisionRankDense(athletes, i, rank) ==
  IF i > 1 /\ athletes[i].totalPoints < athletes[i - 1].totalPoints THEN rank + 1 ELSE rank

\* The rank of the athlete at position i (1-based) of the sorted list, rank
\* being the rank of its predecessor.
NextDivisionRank(athletes, i, rank) ==
  IF i > 1 /\ athletes[i].totalPoints < athletes[i - 1].totalPoints THEN i ELSE rank

RECURSIVE RankFrom(_, _, _)
RankFrom(athletes, i, rank) ==
  IF i > Len(athletes) THEN <<>>
  ELSE LET r == NextDivisionRank(athletes, i, rank)
       IN <<[athletes[i] EXCEPT !.rank = r]>> \o RankFrom(athletes, i + 1, r)

\* div.athletes.sort by totalPoints descending, then the rank loop.
RankDivisionAthletes(div) ==
  [div EXCEPT !.athletes = RankFrom(SortByTotal(@), 1, 1)]

BuildDivisions ==
  /\ pc = "event"
  /\ eventIdx > Len(events)
  /\ divisions' = LET groups == GroupDivisions(athleteMap, <<>>)
                  IN [g \in DOMAIN groups |-> RankDivisionAthletes(groups[g])]
  /\ pc' = "gyms"
  /\ UNCHANGED <<dbVars, callVars, events, registrations, allScores, athleteMap, eventIdx,
                 divisionScores, ranked, dnfScores, gyms, outcome>>

(***************************************************************************)
(* Step 9: gym leaderboard.                                                *)
(***************************************************************************)
\* divisionRankMap.get(uid) ?? 0
DivisionRankOf(divs, userId) ==
  LET ranks == UNION {{divs[d].athletes[i].rank :
                         i \in {i \in DOMAIN divs[d].athletes :
                                  divs[d].athletes[i].userId = userId}} :
                      d \in DOMAIN divs}
  IN IF ranks = {} THEN 0 ELSE CHOOSE r \in ranks : TRUE

\* gymAthleteIds: the user ids grouped by affiliateName, the gyms in order of
\* first appearance.
RECURSIVE GroupGyms(_, _)
GroupGyms(athletes, groups) ==
  IF athletes = <<>> THEN groups
  ELSE LET a == Head(athletes)
       IN IF \E g \in DOMAIN groups : groups[g].name = a.affiliateName
          THEN GroupGyms(Tail(athletes),
                 [g \in DOMAIN groups |->
                    IF groups[g].name = a.affiliateName
                    THEN [groups[g] EXCEPT !.userIds = Append(@, a.userId)]
                    ELSE groups[g]])
          ELSE GroupGyms(Tail(athletes),
                 Append(groups, [name |-> a.affiliateName, userIds |-> <<a.userId>>]))

\* athlete.events.find((e) => e.eventId === event.id)?.points ?? 0
EventPoints(athlete, event) ==
  LET idx == {i \in DOMAIN athlete.events : athlete.events[i].eventId = event.id}
  IN IF idx = {} THEN 0
     ELSE athlete.events[CHOOSE i \in idx : \A j \in idx : i <= j].points

\* The key a gym's athletes are grouped by for one event.
GymDivisionKey(athlete) == athlete.divisionLabel

\* byDiv: the gym's athletes with their points in the event, grouped by
\* division key, the groups in order of first appearance.
RECURSIVE GroupByKey(_, _, _, _)
GroupByKey(userIds, event, map, groups) ==
  IF userIds = <<>> THEN groups
  ELSE LET athlete == GetAthlete(map, Head(userIds))
           item == [userId |-> Head(userIds), points |-> EventPoints(athlete, event)]
           div == GymDivisionKey(athlete)
       IN IF \E g \in DOMAIN groups : groups[g].div = div
          THEN GroupByKey(Tail(userIds), event, map,
                 [g \in DOMAIN groups |->
                    IF groups[g].div = div
                    THEN [groups[g] EXCEPT !.athletes = Append(@, item)]
                    ELSE groups[g]])
          ELSE GroupByKey(Tail(userIds), event, map,
                 Append(groups, [div |-> div, athletes |-> <<item>>]))

\* divAthletes.sort((a, b) => b.points - a.points)
SortByPoints(divAthletes) ==
  ArraySort(divAthletes, [i \in DOMAIN divAthletes |-> [j \in DOMAIN divAthletes |->
                            divAthletes[i].points > divAthletes[j].points]])

\* The athletes of one division group that contribute: the first
\* TOP_PER_DIVISION of the group sorted by points descending.
TopOfDivision(divAthletes) ==
  SubSeq(SortByPoints(divAthletes), 1, Min2(TOP_PER_DIVISION, Len(divAthletes)))

\* The contributions of one gym in one event.
EventContributions(userIds, event, map) ==
  LET byDiv == GroupByKey(userIds, event, map, <<>>)
  IN Flatten([g \in DOMAIN byDiv |->
       LET top == TopOfDivision(byDiv[g].athletes)
       IN [k \in DOMAIN top |->
             [userId |-> top[k].userId, eventId |-> event.id, points |-> top[k].points]]])

\* Every (athlete, event) contribution of one gym, over all events.
GymContributions(userIds, evs, map) ==
  Flatten([e \in DOMAIN evs |-> EventContributions(userIds, evs[e], map)])

\* The total starts again at every event: only the last event's points count.
TotalScoreOfLastEvent(contribs) ==
  SumSeq([k \in DOMAIN contribs |->
            IF contribs[k].eventId = contribs[Len(contribs)].eventId
            THEN contribs[k].points ELSE 0])

\* totalScore: the points of every contribution.
TotalScore(contribs) == SumSeq([k \in DOMAIN contribs |-> contribs[k].points])

\* contributingMap.get(uid)?.has(eventId)
IsContributing(contribs, userId, eventId) ==
  \E k \in DOMAIN contribs : contribs[k].userId = userId /\ contribs[k].eventId = eventId

GymAthleteEvents(athlete, evs, contribs) ==
  [e \in DOMAIN evs |->
     [eventId |-> evs[e].id,
      points |-> EventPoints(athlete, evs[e]),
      contributing |-> IsContributing(contribs, athlete.userId, evs[e].id)]]

\* contributingTotal: the points of the events marked contributing.
ContributingTotal(gymEvents) ==
  SumSeq([e \in DOMAIN gymEvents |->
            IF gymEvents[e].contributing THEN gymEvents[e].points ELSE 0])

GymAthleteEntry(userId, evs, map, divs, contribs) ==
  LET athlete == GetAthlete(map, userId)
      gymEvents == GymAthleteEvents(athlete, evs, contribs)
  IN [name |-> athlete.name,
      division |-> athlete.divisionLabel,
      divisionRank |-> DivisionRankOf(divs, userId),
      events |-> gymEvents,
      contributingTotal |-> ContributingTotal(gymEvents)]

\* athleteEntries.sort((a, b) => b.contributingTotal - a.contributingTotal)
SortByContribution(entries) ==
  ArraySort(entries, [i \in DOMAIN entries |-> [j \in DOMAIN entries |->
                        entries[i].contributingTotal > entries[j].contributingTotal]])

GymLeaderboard(group, evs, map, divs) ==
  LET contribs == GymContributions(group.userIds, evs, map)
      entries == [k \in DOMAIN group.userIds |->
                    GymAthleteEntry(group.userIds[k], evs, map, divs, contribs)]
  IN [name |-> group.name,
      rank |-> 0,
      athleteCount |-> Len(group.userIds),
      totalScore |-> TotalScore(contribs),
      athletes |-> SortByContribution(entries)]

\* nonEmptyGyms.sort((a, b) => b.totalScore - a.totalScore)
SortByScore(gs) ==
  ArraySort(gs, [i \in DOMAIN gs |-> [j \in DOMAIN gs |-> gs[i].totalScore > gs[j].totalScore]])

RECURSIVE GymRankFrom(_, _, _)
GymRankFrom(gs, i, rank) ==
  IF i > Len(gs) THEN <<>>
  ELSE LET r == IF i > 1 /\ gs[i].totalScore < gs[i - 1].totalScore THEN i ELSE rank
       IN <<[gs[i] EXCEPT !.rank = r]>> \o GymRankFrom(gs, i + 1, r)

\* Remove gyms with no athletes, then rank by totalScore descending.
RankGyms(gs) ==
  LET NonEmpty(g) == g.athleteCount > 0
  IN GymRankFrom(SortByScore(SelectSeq(gs, NonEmpty)), 1, 1)

BuildGyms ==
  /\ pc = "gyms"
  /\ gyms' = LET groups == GroupGyms(athleteMap, <<>>)
             IN RankGyms([g \in DOMAIN groups |->
                            GymLeaderboard(groups[g], events, athleteMap, divisions)])
  /\ outcome' = "ok"
  /\ pc' = "done"
  /\ UNCHANGED <<dbVars, callVars, events, registrations, allScores, athleteMap, eventIdx,
                 divisionScores, ranked, dnfScores, divisions>>

(***************************************************************************)
(* getLeaderboard.                                                         *)
(***************************************************************************)
Next ==
  \/ FetchCompetition
  \/ FetchTrack
  \/ FetchEvents
  \/ FetchRegistrations
  \/ FetchScores
  \/ BuildAthletes
  \/ GroupScores
  \/ RankDivision
  \/ Placeholders
  \/ BuildDivisions
  \/ BuildGyms

Spec == Init /\ [][Next]_vars

(***************************************************************************)
(* getLeaderboard called a second time on the same database rows.  What    *)
(* the first call returned or threw is kept aside; the second call starts  *)
(* at the top of the function, and every value it uses is one it computes  *)
(* itself (const declarations, new Map()).                                 *)
(***************************************************************************)
Response == [outcome |-> outcome, divisions |-> divisions, gyms |-> gyms]

CallAgain ==
  /\ pc = "done"
  /\ call = 1
  /\ firstResponse' = Some(Response)
  /\ call' = 2
  /\ pc' = "start"
  /\ outcome' = "pending"
  /\ UNCHANGED <<dbVars, events, registrations, allScores, athleteMap, eventIdx,
                 divisionScores, ranked, dnfScores, divisions, gyms>>

NextTwice == Next \/ CallAgain

SpecTwice == Init /\ [][NextTwice]_vars

(***************************************************************************)
(* Properties.                                                             *)
(***************************************************************************)
Returned == pc = "done" /\ outcome = "ok"

\* The athletes of the response, over all division leaderboards.
OutputAthletes ==
  UNION {Range(divisions[d].athletes) : d \in DOMAIN divisions}

ResultsFor(athlete, eventId) ==
  {i \in DOMAIN athlete.events : athlete.events[i].eventId = eventId}

PointsOf(results) == SumSeq([i \in DOMAIN results |-> results[i].points])

\* C1: in the response every athlete's events list holds exactly one result
\* per published event, so it is as long as the list of published events
\* (score rows missing, dns or stored more than once included).
OneResultPerEvent ==
  Returned =>
    \A a \in OutputAthletes :
      /\ Len(a.events) = Len(events)
      /\ \A e \in DOMAIN events : Cardinality(ResultsFor(a, events[e].id)) = 1

\* C4: every athlete's totalPoints is the sum of the points of the results in
\* the athlete's events list, while the results are built and in the response.
TotalIsSumOfEvents ==
  /\ \A i \in DOMAIN athleteMap : athleteMap[i].totalPoints = PointsOf(athleteMap[i].events)
  /\ \A a \in OutputAthletes : a.totalPoints = PointsOf(a.events)

\* An athlete of the response whose two results for one event (the score row
\* is stored twice) and a later result add up to the total.
TotalOverDuplicates ==
  Returned /\ \E a \in OutputAthletes :
    /\ Len(a.events) > Len(events)
    /\ \E i, j \in DOMAIN a.events :
         i /= j /\ a.events[i].points > 0 /\ a.events[j].points > 0
    /\ a.totalPoints > TRADITIONAL_FIRST_PLACE

\* The comparison key of an entry: the sort key when present, else the value.
KeyOf(entry) ==
  IF Truthy(entry.sortKey) THEN <<"sortKey", entry.sortKey>> ELSE <<"value", entry.value>>

\* A division of the current event has been ranked: ranked and dnfScores are
\* its active entries with their ranks and its dnf entries.
DivisionRanked == pc = "division" /\ (ranked /= <<>> \/ dnfScores /= <<>>)

\* C3: the ranks of the active entries of one (event, division) pair are
\* non-decreasing along the sorted order, entries with equal comparison keys
\* have equal ranks, and the smallest rank is 1.
RanksFollowKeys ==
  DivisionRanked =>
    /\ \A i, j \in DOMAIN ranked : i <= j => ranked[i].rank <= ranked[j].rank
    /\ \A i, j \in DOMAIN ranked :
         KeyOf(ranked[i].entry) = KeyOf(ranked[j].entry) => ranked[i].rank = ranked[j].rank
    /\ ranked /= <<>> =>
         /\ \E i \in DOMAIN ranked : ranked[i].rank = 1
         /\ \A i \in DOMAIN ranked : ranked[i].rank >= 1

\* The largest rank among the active entries, 0 when there is none.
MaxActiveRank ==
  IF ranked = <<>> THEN 0
  ELSE CHOOSE r \in {ranked[i].rank : i \in DOMAIN ranked} :
         \A i \in DOMAIN ranked : ranked[i].rank <= r

IsRankedActive(userId) == \E i \in DOMAIN ranked : ranked[i].entry.userId = userId

\* C5: every athlete with a dnf score in the (event, division) pair just
\* ranked has a result for the event whose rank is the largest active rank of
\* the pair plus 1 (1 when the pair has no active entry), however many dnf
\* entries there are.
DnfRankedAfterActive ==
  DivisionRanked =>
    \A k \in DOMAIN dnfScores :
      LET athlete == GetAthlete(athleteMap, dnfScores[k].userId)
          results == ResultsFor(athlete, events[eventIdx].id)
      IN /\ \E r \in results : athlete.events[r].rank = MaxActiveRank + 1
         /\ ~IsRankedActive(athlete.userId) =>
              \A r \in results : athlete.events[r].rank = MaxActiveRank + 1

\* Two dnf entries after active entries that end in a tie.
DnfAfterTie ==
  /\ DivisionRanked
  /\ Len(dnfScores) >= 2
  /\ Len(ranked) >= 2
  /\ ranked[Len(ranked)].rank < Len(ranked)
  /\ \A k \in DOMAIN dnfScores : ~IsRankedActive(dnfScores[k].userId)

\* The ladder and the rounding of the points rule: L(r) = max(0, 100 - 5 (r - 1))
\* for r >= 1, 100 for r <= 0; p is a nearest integer of L * m / 100.
Ladder(r) == IF r <= 0 THEN 100 ELSE Max2(0, 100 - 5 * (r - 1))
IsNearest(p, product) ==
  LET diff == 100 * p - product IN -50 <= diff /\ diff <= 50

MultiplierOrDefault(eventId) ==
  LET e == CHOOSE e \in Range(events) : e.id = eventId
  IN IF e.pointsMultiplier = NULL THEN 100 ELSE e.pointsMultiplier[1]

DivisionRanksByTotal ==
  \A d \in DOMAIN divisions :
    LET as == divisions[d].athletes
    IN /\ \A i \in DOMAIN as : i > 1 => as[i - 1].totalPoints >= as[i].totalPoints
       /\ \A i, j \in DOMAIN as :
            as[i].totalPoints = as[j].totalPoints => as[i].rank = as[j].rank
       /\ as /= <<>> => as[1].rank = 1
       /\ \A i \in DOMAIN as :
            (i > 1 /\ as[i].totalPoints < as[i - 1].totalPoints) => as[i].rank = i

\* A division whose first two athletes tie and whose third has less.
DivisionTieThenThird ==
  \E d \in DOMAIN divisions :
    LET as == divisions[d].athletes
    IN /\ Len(as) >= 3
       /\ as[1].totalPoints = as[2].totalPoints
       /\ as[3].totalPoints < as[2].totalPoints
       /\ as[3].rank = 3

\* The athletes of gym g registered in the division of id divId.
GymMembers(g, divId) ==
  {i \in DOMAIN athleteMap :
     athleteMap[i].affiliateName = gyms[g].name /\ athleteMap[i].divisionId = divId}

\* The gym's entry of athlete i, for event number e.
GymEventOf(g, i, e) ==
  (CHOOSE entry \in Range(gyms[g].athletes) : entry.name = athleteMap[i].name).events[e]

DivisionIds == {athleteMap[i].divisionId : i \in DOMAIN athleteMap}

\* C2: for every gym, event and division id, the athletes of the gym in that
\* division marked contributing for the event are at most 6, all of them
\* when the gym has 6 or fewer there, and no unmarked one has more points in
\* the event than a marked one.
TopSixPerDivisionId ==
  Returned =>
    \A g \in DOMAIN gyms : \A e \in DOMAIN events : \A divId \in DivisionIds :
      LET members == GymMembers(g, divId)
          marked == {i \in members : GymEventOf(g, i, e).contributing}
      IN /\ Cardinality(marked) <= 6
         /\ Cardinality(marked) = Min2(6, Cardinality(members))
         /\ \A i \in marked : \A j \in members \ marked :
              GymEventOf(g, i, e).points >= GymEventOf(g, j, e).points

\* C8: every gym's totalScore is the sum of its athletes' contributingTotal,
\* each the sum of the athlete's points over the events marked contributing.
GymTotalsAddUp ==
  \A g \in DOMAIN gyms :
    LET entries == gyms[g].athletes
        Contributed(entry) ==
          SumSeq([e \in DOMAIN entry.events |->
                    IF entry.events[e].contributing THEN entry.events[e].points ELSE 0])
    IN /\ \A k \in DOMAIN entries : entries[k].contributingTotal = Contributed(entries[k])
       /\ gyms[g].totalScore = SumSeq([k \in DOMAIN entries |-> Contributed(entries[k])])

\* A gym of more than 6 athletes, one of whom has points in an event that do
\* not count, and points counted in more than one event.
GymWithBenchedAthlete ==
  Returned /\ \E g \in DOMAIN gyms :
    /\ gyms[g].athleteCount > TOP_PER_DIVISION
    /\ \E k \in DOMAIN gyms[g].athletes : \E e \in DOMAIN events :
         LET ev == gyms[g].athletes[k].events[e]
         IN ~ev.contributing /\ ev.points > 0
    /\ \A e \in DOMAIN events :
         \E k \in DOMAIN gyms[g].athletes :
           LET ev == gyms[g].athletes[k].events[e]
           IN ev.contributing /\ ev.points > 0

\* C9: the active entries ranked together are of one division; the best of
\* them has rank 1 and the full ladder points of the event, and so has every
\* entry with the same score as the best (same value, same sort key),
\* whatever the scores of other divisions.
BestOfDivisionRanksFirst ==
  (DivisionRanked /\ ranked /= <<>>) =>
    LET event == events[eventIdx]
        best == ranked[1]
        RankedFirst(userId) ==
          LET athlete == GetAthlete(athleteMap, userId)
          IN \E r \in ResultsFor(athlete, event.id) :
               /\ athlete.events[r].rank = 1
               /\ IsNearest(athlete.events[r].points, 100 * MultiplierOrDefault(event.id))
    IN /\ \A k \in DOMAIN ranked :
            GetAthlete(athleteMap, ranked[k].entry.userId).divisionId
              = GetAthlete(athleteMap, best.entry.userId).divisionId
       /\ best.rank = 1
       /\ \A k \in DOMAIN ranked :
            (ranked[k].entry.value = best.entry.value
               /\ ranked[k].entry.sortKey = best.entry.sortKey)
            => (ranked[k].rank = 1 /\ RankedFirst(ranked[k].entry.userId))

\* C10: when the competition exists but has no track, or no published event,
\* or no registration that is not REMOVED, getLeaderboard returns (it does
\* not throw) with no divisions and no gyms.
EmptyInputsReturnEmpty ==
  (/\ pc = "done"
   /\ dbComp
   /\ \/ ~dbTrack
      \/ \A i \in DOMAIN dbEvents : dbEvents[i].eventStatus /= "published"
      \/ \A i \in DOMAIN dbRegs : dbRegs[i].status = "REMOVED")
  => (outcome = "ok" /\ divisions = <<>> /\ gyms = <<>>)

\* getLeaderboard has returned for a competition without a track.
ReturnedWithoutTrack ==
  pc = "done" /\ dbComp /\ ~dbTrack /\ outcome = "ok"

KeyWithZero(entry) ==
  IF Truthy(entry.sortKey) THEN <<"sortKey", entry.sortKey[1]>>
  ELSE <<"value", ValueOrZero(entry)>>

\* C12: in the sorted active entries of one (event, division) pair the first
\* has rank 1; a later entry whose comparison key (the sort key when it has
\* one, else its value, a missing value counting as 0) differs from its
\* predecessor's has its 1-based position as rank, and one whose key is its
\* predecessor's has its predecessor's rank.
RankIsPositionOfKeyChange ==
  DivisionRanked =>
    \A i \in DOMAIN ranked :
      ranked[i].rank =
        IF i = 1 THEN 1
        ELSE IF KeyWithZero(ranked[i].entry) /= KeyWithZero(ranked[i - 1].entry)
             THEN i
             ELSE ranked[i - 1].rank

\* A score that takes part in the ranking of its event: scored, cap or dnf.
IsCounted(score) == score.status \in {"scored", "cap", "dnf"}

\* The rows of allScores (by index) an athlete has for an event.
ScoresOf(userId, eventId) ==
  {k \in DOMAIN allScores :
     allScores[k].userId = userId /\ allScores[k].competitionEventId = eventId}

\* The entries of division divId in the groups, none when it has no group.
EntriesOf(groups, divId) ==
  IF \E g \in DOMAIN groups : groups[g].divId = divId
  THEN groups[CHOOSE g \in DOMAIN groups : groups[g].divId = divId].scores
  ELSE <<>>

\* C13: an athlete all of whose scores for an event have a status other than
\* scored, cap and dnf, or who has no score for it, has exactly one result
\* for the event in the response, with points 0 and rank 0, and a total that
\* is the sum of the other events' points; and the active entries with their
\* ranks, and the dnf entries, of a division just ranked are those the event's
\* scores give once every score of such a status is taken away.
UncountedScoresChangeNothing ==
  /\ Returned =>
       \A a \in OutputAthletes : \A e \in DOMAIN events :
         (\A k \in ScoresOf(a.userId, events[e].id) : ~IsCounted(allScores[k]))
         => /\ Cardinality(ResultsFor(a, events[e].id)) = 1
            /\ \A r \in ResultsFor(a, events[e].id) :
                 a.events[r].points = 0 /\ a.events[r].rank = 0
            /\ a.totalPoints =
                 SumSeq([r \in DOMAIN a.events |->
                           IF a.events[r].eventId = events[e].id THEN 0
                           ELSE a.events[r].points])
  /\ pc = "division" =>
       LET event == events[eventIdx]
           groups == GroupByDivision(allScores, event, athleteMap, <<>>)
           done == Len(groups) - Len(divisionScores)
           without == GroupByDivision(SelectSeq(allScores, IsCounted), event,
                                      athleteMap, <<>>)
       IN done >= 1 =>
            LET entries == EntriesOf(without, groups[done].divId)
            IN /\ ranked = assignRanks(SortActive(SelectSeq(entries, IsActive)))
               /\ dnfScores = SelectSeq(entries, IsDnf)

\* The response holds an athlete whose only score for an event is a dns: the
\* result is 0 points at rank 0, the athlete has points from another event,
\* and two others of the division are ranked first and second in the event.
DnsBesideRankedAthletes ==
  Returned /\ \E a \in OutputAthletes : \E e \in DOMAIN events :
    LET eventId == events[e].id
        Division(userId) == GetAthlete(athleteMap, userId).divisionId
    IN /\ Cardinality(ScoresOf(a.userId, eventId)) = 1
       /\ \A k \in ScoresOf(a.userId, eventId) : allScores[k].status = "dns"
       /\ \A r \in ResultsFor(a, eventId) : a.events[r].points = 0 /\ a.events[r].rank = 0
       /\ a.totalPoints > 0
       /\ \E b, c \in OutputAthletes :
            /\ Division(b.userId) = Division(a.userId)
            /\ Division(c.userId) = Division(a.userId)
            /\ \E r \in ResultsFor(b, eventId) : b.events[r].rank = 1
            /\ \E r \in ResultsFor(c, eventId) : c.events[r].rank = 2

====
